---- MODULE Spec2Model ----
(***************************************************************************)
(* Model of cron-fetch-browser (src/main.py): the due-time check of the    *)
(* scheduled tasks (DatabaseManager) and the execution of each due task    *)
(* through the Browser-Use API (BrowserUseAPI.run_task and its poll loop), *)
(* driven by main / check_and_execute_tasks / execute_scheduled_task.      *)
(*                                                                         *)
(* Time is counted in minutes.  The clock is read in two places only, the  *)
(* due-check (datetime.now) and update_last_run_time (NOW()): the minutes   *)
(* that passed since the last reading, the sleeps of the poll loop among   *)
(* them, are added when it is read.  Text is a sequence of one-character   *)
(* strings, so that the substring tests and the digit filter of            *)
(* _is_task_due are computed character by character as Python does.  A     *)
(* call to the database or to the API that raises is one of the outcomes   *)
(* of the action that makes the call.                                      *)
(***************************************************************************)
EXTENDS Integers, Sequences, FiniteSets, TLC

(***************************************************************************)
(* Text helpers: str.lower, the "in" substring test, filter(str.isdigit),  *)
(* int().                                                                  *)
(***************************************************************************)
UpperChars == <<"A","B","C","D","E","F","G","H","I","J","K","L","M",
                "N","O","P","Q","R","S","T","U","V","W","X","Y","Z">>
LowerChars == <<"a","b","c","d","e","f","g","h","i","j","k","l","m",
                "n","o","p","q","r","s","t","u","v","w","x","y","z">>
DigitChars == <<"0","1","2","3","4","5","6","7","8","9">>

LowerChar(c) ==
    IF \E i \in 1..Len(UpperChars) : UpperChars[i] = c
    THEN LowerChars[CHOOSE i \in 1..Len(UpperChars) : UpperChars[i] = c]
    ELSE c

\* str.lower()
Lower(s) == [i \in 1..Len(s) |-> LowerChar(s[i])]

\* pattern in text
Contains(s, p) ==
    \E i \in 1..(Len(s) - Len(p) + 1) : SubSeq(s, i, i + Len(p) - 1) = p

\* str.isdigit on one character
IsDigit(c) == \E i \in 1..Len(DigitChars) : DigitChars[i] = c

DigitValue(c) == (CHOOSE i \in 1..Len(DigitChars) : DigitChars[i] = c) - 1

\* variant of Digits that keeps the first run of digits only
DigitsFirstRun(s) ==
    LET at == { i \in 1..Len(s) : IsDigit(s[i]) }
    IN  IF at = {} THEN <<>>
        ELSE LET a == CHOOSE i \in at : \A k \in at : i <= k
                 b == CHOOSE i \in at :
                        /\ \A k \in a..i : k \in at
                        /\ (i + 1) \notin at
             IN  SubSeq(s, a, b)

\* ''.join(filter(str.isdigit, text))
Digits(s) == SelectSeq(s, IsDigit)

RECURSIVE DecimalValue(_)
DecimalValue(ds) ==
    IF ds = <<>> THEN 0
    ELSE 10 * DecimalValue(SubSeq(ds, 1, Len(ds) - 1)) + DigitValue(ds[Len(ds)])

\* int(digits): <<n>> for the value, <<>> for ValueError (the empty string)
ParseInt(ds) == IF ds = <<>> THEN <<>> ELSE <<DecimalValue(ds)>>

EVERY  == <<"e","v","e","r","y">>
HOUR   == <<"h","o","u","r">>
MINUTE == <<"m","i","n","u","t","e">>
DAY    == <<"d","a","y">>

\* timedelta(hours=n), timedelta(minutes=n), timedelta(days=n), in minutes
Hours(n)   == n * 60
Minutes(n) == n
Days(n)    == n * 1440

\* the absent last_run_at (None); a present one is <<t>>
None == <<>>

(***************************************************************************)
(* _is_task_due: next_run as each branch computes it, then now >= next_run *)
(***************************************************************************)
\* variant of NextRun that does not ask for "every"
NextRunNoEvery(last_run, schedule) ==
    LET schedule_text == Lower(schedule)
        n == ParseInt(Digits(schedule_text))
    IN  IF Contains(schedule_text, HOUR)
        THEN IF n # <<>> THEN last_run + Hours(n[1])
                         ELSE last_run + Hours(1)
        ELSE IF Contains(schedule_text, MINUTE)
        THEN IF n # <<>> THEN last_run + Minutes(n[1])
                         ELSE last_run + Minutes(30)
        ELSE IF Contains(schedule_text, DAY)
        THEN IF n # <<>> THEN last_run + Days(n[1])
                         ELSE last_run + Days(1)
        ELSE last_run + Hours(1)

\* variant of NextRun that looks for "day" first and for "hour" last
NextRunDayFirst(last_run, schedule) ==
    LET schedule_text == Lower(schedule)
        n == ParseInt(Digits(schedule_text))
    IN  IF Contains(schedule_text, EVERY)
        THEN IF Contains(schedule_text, DAY)
             THEN IF n # <<>> THEN last_run + Days(n[1])
                              ELSE last_run + Days(1)
             ELSE IF Contains(schedule_text, MINUTE)
             THEN IF n # <<>> THEN last_run + Minutes(n[1])
                              ELSE last_run + Minutes(30)
             ELSE IF Contains(schedule_text, HOUR)
             THEN IF n # <<>> THEN last_run + Hours(n[1])
                              ELSE last_run + Hours(1)
             ELSE last_run + Hours(1)
        ELSE last_run + Hours(1)

NextRun(last_run, schedule) ==
    LET schedule_text == Lower(schedule)
        n == ParseInt(Digits(schedule_text))
    IN  IF Contains(schedule_text, EVERY)
        THEN IF Contains(schedule_text, HOUR)
             THEN IF n # <<>> THEN last_run + Hours(n[1])
                              ELSE last_run + Hours(1)
             ELSE IF Contains(schedule_text, MINUTE)
             THEN IF n # <<>> THEN last_run + Minutes(n[1])
                              ELSE last_run + Minutes(30)
             ELSE IF Contains(schedule_text, DAY)
             THEN IF n # <<>> THEN last_run + Days(n[1])
                              ELSE last_run + Days(1)
             ELSE last_run + Hours(1)
        ELSE last_run + Hours(1)

\* variant of IsTaskDue with > for >=: a task would not be due at next_run itself
IsTaskDueStrict(task, t) ==
    IF task.last_run_at = None THEN TRUE
    ELSE t > NextRun(task.last_run_at[1], task.schedule)

IsTaskDue(task, t) ==
    IF task.last_run_at = None THEN TRUE
    ELSE t >= NextRun(task.last_run_at[1], task.schedule)

(***************************************************************************)
(* Schedule texts the tasks are drawn from.                                *)
(***************************************************************************)
S_every_2_hours == \* "every 2 hours"
    <<"e", "v", "e", "r", "y", " ", "2", " ", "h", "o", "u", "r", "s">>
S_every_hour == \* "every hour"
    <<"e", "v", "e", "r", "y", " ", "h", "o", "u", "r">>
S_Every_2_Hours == \* "Every 2 Hours"
    <<"E", "v", "e", "r", "y", " ", "2", " ", "H", "o", "u", "r", "s">>
S_every_0_hours == \* "every 0 hours"
    <<"e", "v", "e", "r", "y", " ", "0", " ", "h", "o", "u", "r", "s">>
S_every_30_minutes == \* "every 30 minutes"
    <<"e", "v", "e", "r", "y", " ", "3", "0", " ", "m", "i", "n", "u", "t", "e", "s">>
S_every_minute == \* "every minute"
    <<"e", "v", "e", "r", "y", " ", "m", "i", "n", "u", "t", "e">>
S_every_0_minutes == \* "every 0 minutes"
    <<"e", "v", "e", "r", "y", " ", "0", " ", "m", "i", "n", "u", "t", "e", "s">>
S_every_2_days == \* "every 2 days"
    <<"e", "v", "e", "r", "y", " ", "2", " ", "d", "a", "y", "s">>
S_every_day == \* "every day"
    <<"e", "v", "e", "r", "y", " ", "d", "a", "y">>
S_every_0_days == \* "every 0 days"
    <<"e", "v", "e", "r", "y", " ", "0", " ", "d", "a", "y", "s">>
S_every_1_hour_1_day == \* "every 1 hour 1 day"
    <<"e", "v", "e", "r", "y", " ", "1", " ", "h", "o", "u", "r", " ", "1", " ", "d", "a", "y">>
S_every_2_hours_on_day_3 == \* "every 2 hours on day 3"
    <<"e", "v", "e", "r", "y", " ", "2", " ", "h", "o", "u", "r", "s", " ", "o", "n", " ", "d", "a", "y", " ", "3">>
S_every_day_5_minutes == \* "every day 5 minutes"
    <<"e", "v", "e", "r", "y", " ", "d", "a", "y", " ", "5", " ", "m", "i", "n", "u", "t", "e", "s">>
S_every_day_3_hours == \* "every day 3 hours"
    <<"e", "v", "e", "r", "y", " ", "d", "a", "y", " ", "3", " ", "h", "o", "u", "r", "s">>
S_every_5_minutes_past_the_hour == \* "every 5 minutes past the hour"
    <<"e", "v", "e", "r", "y", " ", "5", " ", "m", "i", "n", "u", "t", "e", "s", " ", "p", "a", "s", "t", " ", "t", "h", "e", " ", "h", "o", "u", "r">>
S_30_minutes == \* "30 minutes"
    <<"3", "0", " ", "m", "i", "n", "u", "t", "e", "s">>
S_2_hours == \* "2 hours"
    <<"2", " ", "h", "o", "u", "r", "s">>
S_every_3_weeks == \* "every 3 weeks"
    <<"e", "v", "e", "r", "y", " ", "3", " ", "w", "e", "e", "k", "s">>
S_daily_at_9 == \* "daily at 9"
    <<"d", "a", "i", "l", "y", " ", "a", "t", " ", "9">>


\* every sample text, for the due-check
Schedules ==
    { S_every_2_hours, S_every_hour, S_Every_2_Hours, S_every_0_hours,
      S_every_30_minutes, S_every_minute, S_every_0_minutes,
      S_every_2_days, S_every_day, S_every_0_days,
      S_every_1_hour_1_day, S_every_2_hours_on_day_3, S_every_day_5_minutes,
      S_every_day_3_hours, S_every_5_minutes_past_the_hour,
      S_30_minutes, S_2_hours, S_every_3_weeks, S_daily_at_9 }

(***************************************************************************)
(* Bounds of the model.                                                    *)
(***************************************************************************)
\* the clock advances by 0..MaxDelay minutes between two readings of it
MaxDelay == 1
\* a stored last_run_at is one of 0..MaxLastRun
MaxLastRun == 1

\* the rows of table scheduled_tasks
JobIds == {"j1", "j2"}

\* readings of the clock at the start of an invocation, around the
\* intervals of the sample texts (0, 30 min, 1 h, 2 h, 3 h, 5 h, 11 h, 23 h,
\* 1 d, 2 d)
IntervalMarks == {0, 30, 60, 120, 180, 300, 660, 1380, 1440, 2880}
DueNows == { m + d : m \in IntervalMarks, d \in {-1, 0, 1, 2} }
RunNows == {60}

LastRuns == {None} \cup { <<t>> : t \in 0..MaxLastRun }

\* class ScheduledTask, the fields the scheduler reads
Rows(texts) == [schedule : texts, last_run_at : LastRuns, is_active : BOOLEAN]

RequiredEnvVars == {"DATABASE_URL", "BROWSER_USE_API_KEY"}

\* max_attempts of _poll_task_completion
max_attempts == 120

(***************************************************************************)
(* Answers of the Browser-Use API.                                         *)
(***************************************************************************)
\* a key the JSON answer does not hold
NoKey == "<no key>"

\* POST /run-task: accepted with an id, accepted without an id, refused
\* (not response.ok), or the request itself raises
SubmitResponses == {"ok_id", "ok_no_id", "not_ok", "error"}

RunningStatuses == {"running", "pending", "queued"}

\* GET /task/{id}: the request or the JSON parse raises, the response is not
\* ok, or a JSON object with its status, output and error
PollResponses ==
         { [kind |-> "exception",  status |-> NoKey, output |-> NoKey, error |-> NoKey],
           [kind |-> "http_error", status |-> NoKey, output |-> NoKey, error |-> NoKey] }
    \cup [kind : {"json"}, status : {"finished", "stopped"},
          output : {"X", "", NoKey}, error : {NoKey}]
    \cup [kind : {"json"}, status : {"failed"},
          output : {NoKey}, error : {"E", NoKey}]
    \cup [kind : {"json"}, status : RunningStatuses \cup {"paused", NoKey},
          output : {NoKey}, error : {NoKey}]

NoResponse == [kind |-> "none", status |-> NoKey, output |-> NoKey, error |-> NoKey]

\* task_data.get("output", "")
OutputOf(r) == IF r.output = NoKey THEN "" ELSE r.output
\* task_data.get("error", "Unknown error")
ErrorOf(r) == IF r.error = NoKey THEN "Unknown error" ELSE r.error

\* variant of PollBranch in which a failed status waits and anything that is
\* no JSON answer leaves the loop with an exception
PollBranchAbortOnError(r) ==
    IF r.kind = "json" /\ r.status \in {"finished", "stopped"} THEN "return"
    ELSE IF r.kind = "json" THEN "sleep"
    ELSE "raise"

\* variant of PollBranch in which the failed status ends the loop as the
\* stopped status does
PollBranchFailedReturns(r) ==
    IF r.kind = "json" /\ r.status \in {"finished", "stopped", "failed"}
    THEN "return"
    ELSE "sleep"

\* what one iteration of the poll loop does with an answer:
\*   "return" the result, or "sleep" (sleep 5, attempt += 1, next iteration).
\* The raise of the failed branch (line 238) is inside the try of the loop
\* body (line 208): the except clause of that try (line 260) catches it, as
\* it catches a transport error.
PollBranch(r) ==
    IF r.kind = "exception" THEN "sleep"
    ELSE IF r.kind = "http_error" THEN "sleep"
    ELSE IF r.status = "finished" THEN "return"
    ELSE IF r.status = "failed" THEN "sleep"
    ELSE IF r.status = "stopped" THEN "return"
    ELSE IF r.status \in RunningStatuses THEN "sleep"
    ELSE "sleep"

\* variant of PollResult without the markers for an empty output
PollResultRaw(r) == OutputOf(r)

\* the string the finished and stopped branches return
PollResult(r) ==
    IF r.status = "finished"
    THEN (IF OutputOf(r) # "" THEN OutputOf(r) ELSE "Task completed successfully")
    ELSE (IF OutputOf(r) # "" THEN OutputOf(r) ELSE "Task was stopped")

\* variant of LoopGoesOn with <= for <
LoopGoesOnOneMore(a) == a <= max_attempts

\* while attempt < max_attempts
LoopGoesOn(a) == a < max_attempts

(***************************************************************************)
(* State.                                                                  *)
(***************************************************************************)
VARIABLES
    env,        \* which environment variables are set
    db,         \* table scheduled_tasks: id -> row
    now,        \* the clock (datetime.now(timezone.utc), NOW()), in minutes
    pc,         \* where the invocation is; at its end "done", or "aborted"
                \* when it ended in the except of check_and_execute_tasks
    due_tasks,  \* check_and_execute_tasks: the list the due-check returned
    idx,        \* position of the for loop in due_tasks
    attempt,    \* _poll_task_completion: attempt
    resp,       \* the answer of the last status poll of the current remote task
    ret,        \* how run_task ended for the current task: result or exception
    submits,    \* per task: POST /run-task requests made in this invocation
    records,    \* per task: calls of update_last_run_time in this invocation
    polls,      \* status polls made for the current remote task
    graced,     \* the 3 second wait after the submission is over
    failedSeen  \* a status poll of the current remote task answered failed

vars == <<env, db, now, pc, due_tasks, idx, attempt, resp, ret,
          submits, records, polls, graced, failedSeen>>

NoRet == [kind |-> "none", value |-> ""]

\* the task the for loop is at
cur == due_tasks[idx]

InitLocals ==
    /\ due_tasks = <<>>
    /\ idx = 0
    /\ attempt = 0
    /\ resp = NoResponse
    /\ ret = NoRet
    /\ submits = [j \in JobIds |-> 0]
    /\ records = [j \in JobIds |-> 0]
    /\ polls = 0
    /\ graced = FALSE
    /\ failedSeen = FALSE

\* one invocation of the script, from main()
Init ==
    /\ env \in [RequiredEnvVars -> BOOLEAN]
    /\ db \in [JobIds -> Rows({S_every_hour})]
    /\ now \in RunNows
    /\ pc = "main"
    /\ InitLocals

\* the due-check alone, on every sample text
InitDue ==
    /\ env = [v \in RequiredEnvVars |-> TRUE]
    /\ \E r1 \in Rows(Schedules), r2 \in Rows({S_every_2_hours}) :
          db = [j \in JobIds |-> IF j = "j1" THEN r1 ELSE r2]
    /\ now \in DueNows
    /\ pc = "check"
    /\ InitLocals

(***************************************************************************)
(* get_tasks_due_for_execution: the active rows, in the order the SELECT   *)
(* returns them (it has no ORDER BY), that _is_task_due keeps.             *)
(***************************************************************************)
FetchOrders ==
    { o \in [1..Cardinality(JobIds) -> JobIds] :
        \A i, k \in 1..Cardinality(JobIds) : i # k => o[i] # o[k] }

\* variant of KeepsRow without the test of line 65
KeepsRowActiveOnly(table, t, j) == table[j].is_active

\* WHERE is_active = true, then the test of line 65
KeepsRow(table, t, j) == table[j].is_active /\ IsTaskDue(table[j], t)

GetTasksDue(table, order, t) ==
    LET Keep(j) == KeepsRow(table, t, j)
    IN  SelectSeq(order, Keep)

\* variant of TableAfterScan in which the scan marks what it returns as run
TableAfterScanStamped(table, due, t) ==
    [j \in JobIds |->
        IF \E i \in 1..Len(due) : due[i] = j
        THEN [table[j] EXCEPT !.last_run_at = <<t>>]
        ELSE table[j]]

\* the table after get_tasks_due_for_execution: a SELECT, then conn.close()
TableAfterScan(table, due, t) == table

(***************************************************************************)
(* main: the environment check, then asyncio.run(check_and_execute_tasks)  *)
(***************************************************************************)
\* variant of Main without the test of the environment
MainNoCheck ==
    /\ pc = "main"
    /\ pc' = "check"
    /\ UNCHANGED <<env, db, now, due_tasks, idx, attempt, resp, ret,
                   submits, records, polls, graced, failedSeen>>

Main ==
    /\ pc = "main"
    /\ pc' = IF \E v \in RequiredEnvVars : ~env[v] THEN "done" ELSE "check"
    /\ UNCHANGED <<env, db, now, due_tasks, idx, attempt, resp, ret,
                   submits, records, polls, graced, failedSeen>>

(***************************************************************************)
(* check_and_execute_tasks up to the for loop: the DATABASE_URL test, the  *)
(* due-check (which raises when the database cannot be reached: the except *)
(* of line 326 ends the invocation) and the empty-list return.             *)
(***************************************************************************)
CheckAndExecuteTasks ==
    /\ pc = "check"
    /\ \E d \in 0..MaxDelay :
         /\ now' = now + d
         /\ IF ~env["DATABASE_URL"]
            THEN pc' = "done" /\ UNCHANGED <<due_tasks, idx>>
            ELSE \/ \* psycopg2 raises
                    /\ pc' = "aborted"
                    /\ UNCHANGED <<due_tasks, idx>>
                 \/ \E order \in FetchOrders :
                      /\ due_tasks' = GetTasksDue(db, order, now')
                      /\ IF due_tasks' = <<>>
                         THEN pc' = "done" /\ idx' = idx
                         ELSE pc' = "execute" /\ idx' = 1
         /\ db' = TableAfterScan(db, due_tasks', now')
    /\ UNCHANGED <<env, attempt, resp, ret,
                   submits, records, polls, graced, failedSeen>>

(***************************************************************************)
(* execute_scheduled_task, first part: the API key test, then run_task up  *)
(* to the answer of POST /run-task.  Every failure here is an exception    *)
(* that the except of line 294 catches.                                    *)
(***************************************************************************)
\* variant of AfterSubmit that polls at once
AfterSubmitNoGrace(r) == IF r = "ok_id" THEN "poll" ELSE "update_except"

\* variant of AfterSubmit that submits again after a refusal
AfterSubmitRetry(r) == IF r = "ok_id" THEN "grace" ELSE "execute"

\* variant of AfterSubmit in which a failed submission is not caught by the
\* handler of execute_scheduled_task
AfterSubmitUncaught(r) == IF r = "ok_id" THEN "grace" ELSE "aborted"

\* where a submission answer leads: the 3 second wait, or the handler
AfterSubmit(r) == IF r = "ok_id" THEN "grace" ELSE "update_except"

SubmitError(r) ==
    IF r = "not_ok" THEN "Failed to start task"
    ELSE IF r = "ok_no_id" THEN "Failed to get task ID"
    ELSE "request error"

Execute ==
    /\ pc = "execute"
    /\ IF ~env["BROWSER_USE_API_KEY"]
       THEN /\ ret' = [kind |-> "raise",
                       value |-> "BROWSER_USE_API_KEY environment variable not set"]
            /\ pc' = "update_except"
            /\ UNCHANGED submits
       ELSE \E r \in SubmitResponses :
              /\ submits' = [submits EXCEPT ![cur] = @ + 1]
              /\ pc' = AfterSubmit(r)
              /\ ret' = IF r = "ok_id" THEN NoRet
                        ELSE [kind |-> "raise", value |-> SubmitError(r)]
    /\ UNCHANGED <<env, db, now, due_tasks, idx, attempt, resp,
                   records, polls, graced, failedSeen>>

\* await asyncio.sleep(3), then _poll_task_completion starts: attempt = 0
Grace ==
    /\ pc = "grace"
    /\ graced' = TRUE
    /\ attempt' = 0
    /\ pc' = "poll"
    /\ UNCHANGED <<env, db, now, due_tasks, idx, resp, ret,
                   submits, records, polls, failedSeen>>

(***************************************************************************)
(* One iteration of the poll loop up to its sleep: GET the status and      *)
(* branch on it.                                                           *)
(***************************************************************************)
Poll ==
    /\ pc = "poll"
    /\ \E r \in PollResponses :
         /\ resp' = r
         /\ polls' = polls + 1
         /\ failedSeen' = (failedSeen \/ (r.kind = "json" /\ r.status = "failed"))
         /\ IF PollBranch(r) = "return"
            THEN /\ ret' = [kind |-> "return", value |-> PollResult(r)]
                 /\ pc' = "update_try"
            ELSE IF PollBranch(r) = "sleep"
            THEN /\ ret' = ret
                 /\ pc' = "sleep"
            ELSE /\ ret' = [kind |-> "raise", value |-> "poll error"]
                 /\ pc' = "update_except"
    /\ UNCHANGED <<env, db, now, due_tasks, idx, attempt,
                   submits, records, graced>>

\* await asyncio.sleep(5); attempt += 1; the while test; past the loop the
\* timeout exception of line 266
Sleep ==
    /\ pc = "sleep"
    /\ attempt' = attempt + 1
    /\ IF LoopGoesOn(attempt')
       THEN pc' = "poll" /\ ret' = ret
       ELSE /\ pc' = "update_except"
            /\ ret' = [kind |-> "raise", value |-> "timed out"]
    /\ UNCHANGED <<env, db, now, due_tasks, idx, resp,
                   submits, records, polls, graced, failedSeen>>

(***************************************************************************)
(* update_last_run_time, from the try block (line 291) and from the except *)
(* handler (line 297).  The call raises when the database cannot be        *)
(* reached; raised in the try block it is caught by the same handler,      *)
(* raised in the handler it leaves execute_scheduled_task and the except   *)
(* of line 326 ends the for loop.                                          *)
(***************************************************************************)
\* SET last_run_at = NOW() WHERE id = task_id
Stamp(table, j, t) == [table EXCEPT ![j].last_run_at = <<t>>]

\* the for loop goes to its next task, a new call of execute_scheduled_task
\* with locals of its own, or is over
NextTask ==
    IF idx < Len(due_tasks)
    THEN /\ pc' = "execute"
         /\ idx' = idx + 1
         /\ attempt' = 0
         /\ resp' = NoResponse
         /\ ret' = NoRet
         /\ polls' = 0
         /\ graced' = FALSE
         /\ failedSeen' = FALSE
    ELSE /\ pc' = "done"
         /\ idx' = idx
         /\ UNCHANGED <<attempt, resp, ret, polls, graced, failedSeen>>

\* the exception leaves the function: nothing else changes
Leave(where) ==
    /\ pc' = where
    /\ idx' = idx
    /\ UNCHANGED <<attempt, resp, ret, polls, graced, failedSeen>>

\* variant of UpdateTry in which the loop goes to its next task before the
\* update of the current one is made
UpdateTryForgets ==
    /\ pc = "update_try"
    /\ NextTask
    /\ UNCHANGED <<env, db, now, due_tasks, submits, records>>

UpdateTry ==
    /\ pc = "update_try"
    /\ records' = [records EXCEPT ![cur] = @ + 1]
    /\ \E d \in 0..MaxDelay :
         /\ now' = now + d
         /\ \/ /\ db' = Stamp(db, cur, now')
               /\ NextTask
            \/ /\ db' = db
               /\ Leave("update_except")
    /\ UNCHANGED <<env, due_tasks, submits>>

UpdateExcept ==
    /\ pc = "update_except"
    /\ records' = [records EXCEPT ![cur] = @ + 1]
    /\ \E d \in 0..MaxDelay :
         /\ now' = now + d
         /\ \/ /\ db' = Stamp(db, cur, now')
               /\ NextTask
            \/ /\ db' = db
               /\ Leave("aborted")
    /\ UNCHANGED <<env, due_tasks, submits>>

Next ==
    \/ Main
    \/ CheckAndExecuteTasks
    \/ Execute
    \/ Grace
    \/ Poll
    \/ Sleep
    \/ UpdateTry
    \/ UpdateExcept

Spec == Init /\ [][Next]_vars

\* the due-check applied once to each table and clock reading
NextDue == CheckAndExecuteTasks

SpecDue == InitDue /\ [][NextDue]_vars

\* the invocation is over
Ended == pc \in {"done", "aborted"}

(***************************************************************************)
(* The script run again and again by its external timer: every run is a    *)
(* new process, with the table as the runs before left it.                 *)
(***************************************************************************)
\* the timer starts the script MaxGaps more times, an hour apart
MaxGaps == 1

\* a last_run_at ahead of the clock of this host
FutureRun == <<200>>

InitLife ==
    /\ env = [v \in RequiredEnvVars |-> TRUE]
    /\ \E lr \in {None, <<0>>, FutureRun} :
          db = [j \in JobIds |->
                  IF j = "j1"
                  THEN [schedule |-> S_every_hour, last_run_at |-> lr,
                        is_active |-> TRUE]
                  ELSE [schedule |-> S_every_day, last_run_at |-> None,
                        is_active |-> FALSE]]
    /\ now \in RunNows
    /\ pc = "main"
    /\ InitLocals

Reinvoke ==
    /\ Ended
    /\ now < Hours(1 + MaxGaps)
    /\ now' = now + Hours(1)
    /\ pc' = "main"
    /\ due_tasks' = <<>>
    /\ idx' = 0
    /\ attempt' = 0
    /\ resp' = NoResponse
    /\ ret' = NoRet
    /\ submits' = [j \in JobIds |-> 0]
    /\ records' = [j \in JobIds |-> 0]
    /\ polls' = 0
    /\ graced' = FALSE
    /\ failedSeen' = FALSE
    /\ UNCHANGED <<env, db>>

NextLife ==
    \/ Next
    \/ Reinvoke

SpecLife == InitLife /\ [][NextLife]_vars

(***************************************************************************)
(* One invocation under the scheduling of asyncio.run: the coroutine is    *)
(* resumed whenever the call or the sleep it awaits has returned, so a     *)
(* step that can be taken is taken.                                        *)
(***************************************************************************)
InitLive ==
    /\ env = [v \in RequiredEnvVars |-> TRUE]
    /\ \E a2 \in BOOLEAN :
          db = [j \in JobIds |->
                  [schedule |-> S_every_hour, last_run_at |-> None,
                   is_active |-> (j = "j1" \/ a2)]]
    /\ now \in RunNows
    /\ pc = "main"
    /\ InitLocals

SpecLive == InitLive /\ [][Next]_vars /\ WF_vars(Next)

(***************************************************************************)
(* Properties.                                                             *)
(***************************************************************************)
\* the tasks the due-check returned
DueSet == { due_tasks[i] : i \in 1..Len(due_tasks) }

\* run_task is between its submission and its end
InRunTask == pc \in {"grace", "poll", "sleep"}

\* the last poll answered finished or stopped
SuccessAnswer(r) == r.kind = "json" /\ r.status \in {"finished", "stopped"}

\* the last poll answered failed
FailedAnswer(r) == r.kind = "json" /\ r.status = "failed"

\* a transport or parse error, a response that is not ok, an unknown status
Transient(r) ==
    \/ r.kind \in {"exception", "http_error"}
    \/ /\ r.kind = "json"
       /\ r.status \notin {"finished", "stopped", "failed"} \cup RunningStatuses

TimedOut == ret = [kind |-> "raise", value |-> "timed out"]

\* C1: every task the due-check returned gets exactly one call of
\* update_last_run_time in the invocation: never two, and when the
\* invocation is over never zero.
C1_ExactlyOneRecordRun ==
    /\ \A j \in JobIds : records[j] <= 1
    /\ Ended => \A j \in DueSet : records[j] = 1

\* C2: failed is terminal: once a status poll of the current remote task
\* answered failed, the loop neither sleeps nor polls again.
C2_FailedIsTerminal ==
    failedSeen => pc \notin {"sleep", "poll"}

\* C3: once a status poll answered failed, run_task ends in the failure
\* "Task failed: <error>", never in a result and never in the timeout.
C3_FailedYieldsFailure ==
    (failedSeen /\ ret.kind # "none") =>
        /\ ret.kind = "raise"
        /\ ret.value \in {"Task failed: E", "Task failed: Unknown error"}

\* C4: at most 120 status polls per remote task; finished on the 120th poll
\* is a success; 120 polls without a result end in the timeout, and the
\* timeout comes from nothing else; there is no 121st poll.
C4_PollBound ==
    /\ polls <= 120
    /\ pc = "poll" => polls < 120
    /\ (polls = 120 /\ SuccessAnswer(resp)) => ret.kind = "return"
    /\ (polls = 120 /\ ~SuccessAnswer(resp) /\ pc # "sleep") => TimedOut
    /\ TimedOut => (polls = 120 /\ ~SuccessAnswer(resp))

C4_Witness ==
    /\ polls = 120
    /\ resp.kind = "json" /\ resp.status = "finished"
    /\ ret.kind = "return"
    /\ ~failedSeen

\* C5: a transient poll outcome does not end the loop: the loop is left
\* after one only by the timeout at the 120th poll; every poll takes one
\* attempt of the budget (attempt counts the polls slept after), the sleep
\* follows it, and a later finished still gives the result.
C5_TransientGoesOn ==
    /\ (Transient(resp) /\ ~InRunTask) => (TimedOut /\ polls = 120)
    /\ pc = "sleep" => attempt = polls - 1
    /\ pc = "poll" => attempt = polls
    /\ (SuccessAnswer(resp) /\ polls >= 2) => ret.kind = "return"

C5_Witness ==
    /\ pc = "poll"
    /\ resp.kind = "exception"
    /\ polls = 5
    /\ attempt = 5

\* C6: when the invocation is over, every task the due-check returned was
\* submitted and marked as run, whatever happened to the tasks before it.
C6_JobsIsolated ==
    Ended => \A j \in DueSet : submits[j] = 1 /\ records[j] >= 1

\* the due-check returned its list
ScanDone == pc \in {"execute", "done"}

\* the interval in minutes of each sample text whose digits are absent or
\* form a positive number, written out by hand
StatedInterval(text) ==
    CASE text = S_every_2_hours          -> 120
      [] text = S_Every_2_Hours          -> 120
      [] text = S_every_hour             -> 60
      [] text = S_every_30_minutes       -> 30
      [] text = S_every_minute           -> 30
      [] text = S_every_2_days           -> 2880
      [] text = S_every_day              -> 1440
      [] text = S_every_1_hour_1_day     -> 660
      [] text = S_every_2_hours_on_day_3 -> 1380
      [] text = S_every_day_5_minutes    -> 5
      [] text = S_every_day_3_hours      -> 180
      [] text = S_every_5_minutes_past_the_hour -> 300
      [] text = S_30_minutes             -> 60
      [] text = S_2_hours                -> 60
      [] text = S_every_3_weeks          -> 60
      [] text = S_daily_at_9             -> 60

\* the texts with "every", a unit and the number zero
ZeroTexts == {S_every_0_hours, S_every_0_minutes, S_every_0_days}

\* the unit default the fallback rule gives them
StatedDefault(text) ==
    CASE text = S_every_0_hours   -> 60
      [] text = S_every_0_minutes -> 30
      [] text = S_every_0_days    -> 1440

\* C7: the due-check returns each task at most once and exactly the active
\* tasks that are due: one never run is due at any time, one last run at T
\* is due iff now >= T + interval ("every 2 hours": iff now >= T + 120
\* minutes); an inactive task is never returned.  (The texts with the
\* number zero are the matter of C8.)
C7_DueExactly ==
    ScanDone =>
        /\ Len(due_tasks) = Cardinality(DueSet)
        /\ \A j \in JobIds :
             /\ ~db[j].is_active => j \notin DueSet
             /\ (db[j].is_active /\ db[j].last_run_at = None) => j \in DueSet
             /\ ( /\ db[j].is_active
                  /\ db[j].last_run_at # None
                  /\ db[j].schedule \notin ZeroTexts )
                => ( j \in DueSet <=>
                       now >= db[j].last_run_at[1] + StatedInterval(db[j].schedule) )

C7_Witness ==
    /\ ScanDone
    /\ db["j1"].schedule = S_every_2_hours
    /\ db["j1"].is_active
    /\ db["j1"].last_run_at = <<1>>
    /\ now = 121
    /\ "j1" \in DueSet
    /\ ~db["j2"].is_active

\* C8: digits that form zero fall back to the unit default (1 hour, 30
\* minutes, 1 day), so the interval is strictly positive: a task last run
\* at T is not due at T.
C8_ZeroFallsBack ==
    ScanDone =>
        \A j \in JobIds :
            (db[j].is_active /\ db[j].last_run_at # None) =>
                /\ j \in DueSet => now > db[j].last_run_at[1]
                /\ db[j].schedule \in ZeroTexts =>
                     ( j \in DueSet <=>
                         now >= db[j].last_run_at[1] + StatedDefault(db[j].schedule) )

\* C9: a poll answering finished or stopped ends run_task with a result:
\* the output of the answer, or the completed / stopped marker when the
\* output is empty or absent; finished with output X on the first poll
\* gives X after one poll.
C9_SuccessOutput ==
    /\ SuccessAnswer(resp) => (ret.kind = "return" /\ ~InRunTask)
    /\ ret.kind = "return" =>
         /\ SuccessAnswer(resp)
         /\ resp.output \notin {"", NoKey} => ret.value = resp.output
         /\ (resp.output \in {"", NoKey} /\ resp.status = "finished")
              => ret.value = "Task completed successfully"
         /\ (resp.output \in {"", NoKey} /\ resp.status = "stopped")
              => ret.value = "Task was stopped"

C9_Witness ==
    /\ polls = 1
    /\ resp.status = "finished"
    /\ resp.output = "X"
    /\ ret = [kind |-> "return", value |-> "X"]

\* C10: per task the order is submit, the 3 second wait, the first poll,
\* and update_last_run_time after the last poll: no poll before the wait
\* is over, no wait or poll without the submission, and no call of
\* update_last_run_time while the task is still waited for or polled.
C10_Order ==
    /\ pc = "grace" => (polls = 0 /\ ~graced)
    /\ (polls > 0 \/ pc \in {"poll", "sleep"}) => graced
    /\ (graced \/ pc = "grace") => submits[cur] = 1
    /\ InRunTask => records[cur] = 0

C10_Witness ==
    /\ pc = "done"
    /\ graced
    /\ polls >= 2
    /\ submits[cur] = 1
    /\ records[cur] = 1

\* C11: a task is submitted at most once in an invocation, and only a task
\* the due-check returned; when the submission is refused or its answer
\* holds no id, run_task ends in that failure with no second submission, no
\* 3 second wait and no status poll.
C11_SubmitOnce ==
    /\ \A j \in JobIds : submits[j] <= 1
    /\ \A j \in JobIds \ DueSet : submits[j] = 0
    /\ ( /\ ret.kind = "raise"
         /\ ret.value \in {"Failed to start task", "Failed to get task ID"} )
       => /\ submits[cur] = 1
          /\ ~graced
          /\ polls = 0
          /\ resp = NoResponse
          /\ ~InRunTask

C11_Witness ==
    /\ pc = "done"
    /\ ret = [kind |-> "raise", value |-> "Failed to get task ID"]
    /\ submits[cur] = 1
    /\ records[cur] = 1
    /\ polls = 0

\* C12: a last_run_at that is set is never cleared and never moves
\* backwards, over all invocations; when update_last_run_time changes a row
\* it sets last_run_at to the clock.
C12_LastRunMonotone ==
    [][ \A j \in JobIds :
          /\ db[j].last_run_at # None =>
               /\ db'[j].last_run_at # None
               /\ db'[j].last_run_at[1] >= db[j].last_run_at[1]
          /\ db'[j] # db[j] =>
               db'[j] = [db[j] EXCEPT !.last_run_at = <<now'>>] ]_vars

C12_Witness ==
    /\ pc = "done"
    /\ now >= 120
    /\ records["j1"] = 1
    /\ db["j1"].last_run_at = <<now>>

\* C13: the due-check changes no row and makes no call of
\* update_last_run_time or of the API; rows change and
\* update_last_run_time is called only at its two call sites in
\* execute_scheduled_task.
C13_DueCheckReadOnly ==
    [][ /\ pc = "check" =>
             /\ db' = db
             /\ records' = records
             /\ submits' = submits
             /\ polls' = polls
        /\ (db' # db \/ records' # records) =>
             pc \in {"update_try", "update_except"} ]_vars

C13_Witness ==
    /\ pc = "execute"
    /\ idx = 1
    /\ Len(due_tasks) = 2
    /\ \A j \in JobIds : records[j] = 0 /\ submits[j] = 0
    /\ db[cur].last_run_at = <<0>>

\* C14: with DATABASE_URL or BROWSER_USE_API_KEY not set the invocation
\* ends in main: no due-check, no submission, no status poll and no call of
\* update_last_run_time for any task.
C14_ConfigFatal ==
    (\E v \in RequiredEnvVars : ~env[v]) =>
        /\ pc \in {"main", "done"}
        /\ due_tasks = <<>>
        /\ polls = 0
        /\ \A j \in JobIds : submits[j] = 0 /\ records[j] = 0

C14_Witness ==
    /\ pc = "done"
    /\ env["DATABASE_URL"]
    /\ ~env["BROWSER_USE_API_KEY"]
    /\ db["j1"].is_active
    /\ db["j1"].last_run_at = None

\* the due-check on a task last run at T: it is returned iff now >= T + mins
DueFrom(j, mins) == j \in DueSet <=> now >= db[j].last_run_at[1] + mins

\* the active tasks that have run before
HasRun(j) == db[j].is_active /\ db[j].last_run_at # None

\* C15: with "every" and more than one unit keyword in the text, hour wins
\* over minute and day, and minute over day, wherever they stand in the
\* text: "every 1 hour 1 day" is 11 hours, "every day 3 hours" 3 hours,
\* "every 5 minutes past the hour" 5 hours, "every day 5 minutes" 5 minutes.
C15_UnitPriority ==
    ScanDone =>
        \A j \in JobIds : HasRun(j) =>
            /\ db[j].schedule = S_every_1_hour_1_day => DueFrom(j, 11 * 60)
            /\ db[j].schedule = S_every_day_3_hours => DueFrom(j, 3 * 60)
            /\ db[j].schedule = S_every_5_minutes_past_the_hour => DueFrom(j, 5 * 60)
            /\ db[j].schedule = S_every_day_5_minutes => DueFrom(j, 5)

C15_Witness ==
    /\ ScanDone
    /\ db["j1"].schedule = S_every_day_3_hours
    /\ db["j1"].is_active
    /\ db["j1"].last_run_at = <<0>>
    /\ now = 180
    /\ "j1" \in DueSet

\* the texts without "every" ("2 hours", "30 minutes", "daily at 9") and
\* the text with "every" and none of hour, minute, day ("every 3 weeks")
UnclearTexts == {S_2_hours, S_30_minutes, S_daily_at_9, S_every_3_weeks}

\* C16: a text without "every", or with none of the unit keywords, has an
\* interval of exactly 1 hour, whatever digits it holds.
C16_DefaultHour ==
    ScanDone =>
        \A j \in JobIds :
            (HasRun(j) /\ db[j].schedule \in UnclearTexts) => DueFrom(j, 60)

C16_Witness ==
    /\ ScanDone
    /\ db["j1"].schedule = S_2_hours
    /\ db["j1"].is_active
    /\ db["j1"].last_run_at = <<0>>
    /\ now = 60
    /\ "j1" \in DueSet

\* C17: the number of the interval is all the digits of the text put
\* together in their order: "every 2 hours on day 3" is 23 hours, "every 1
\* hour 1 day" 11 hours.
C17_DigitsConcatenated ==
    ScanDone =>
        \A j \in JobIds : HasRun(j) =>
            /\ db[j].schedule = S_every_2_hours_on_day_3 => DueFrom(j, 23 * 60)
            /\ db[j].schedule = S_every_1_hour_1_day => DueFrom(j, 11 * 60)

C17_Witness ==
    /\ ScanDone
    /\ db["j1"].schedule = S_every_2_hours_on_day_3
    /\ db["j1"].is_active
    /\ db["j1"].last_run_at = <<0>>
    /\ now = 1379
    /\ "j1" \notin DueSet

\* C18: every execution terminates, whatever the API answers: the
\* invocation ends, every call of execute_scheduled_task gets an outcome of
\* run_task (a result or an exception), and every task that was submitted
\* gets its call of update_last_run_time.
C18_Terminates ==
    /\ <>Ended
    /\ [](pc = "execute" => <>(ret.kind # "none"))
    /\ \A j \in JobIds : [](submits[j] >= 1 => <>(records[j] >= 1))

C18_Witness ==
    /\ pc = "done"
    /\ TimedOut
    /\ polls = 120
    /\ failedSeen
    /\ records[cur] = 1

\* C19: due tasks are executed one after another in the order of the
\* due list: while the task at position idx is handled, every task before
\* it has been submitted and has had its call of update_last_run_time, and
\* no task after it has been submitted or updated; a task that is being
\* submitted or polled has had no update call yet.
C19_Sequential ==
    idx >= 1 =>
        /\ \A i \in 1..Len(due_tasks) :
              /\ i < idx => /\ submits[due_tasks[i]] = 1
                            /\ records[due_tasks[i]] >= 1
              /\ i > idx => /\ submits[due_tasks[i]] = 0
                            /\ records[due_tasks[i]] = 0
        /\ InRunTask => records[cur] = 0

C19_Witness ==
    /\ InRunTask
    /\ idx = 2
    /\ submits[cur] = 1
    /\ records[due_tasks[1]] = 1

\* C20: success comes only from a poll that answered finished or stopped:
\* whenever run_task has returned a result, and whenever the success path
\* of execute_scheduled_task (line 291) is taken, at least one poll was made
\* and the last one answered finished or stopped; and no poll is made for a
\* task once a poll of it has answered finished or stopped.
C20_SuccessOnlyFromTerminal ==
    /\ []((ret.kind = "return" \/ pc = "update_try") =>
            (polls >= 1 /\ SuccessAnswer(resp)))
    /\ [][polls' = polls + 1 => ~SuccessAnswer(resp)]_vars

C20_Witness ==
    /\ pc = "update_try"
    /\ ret.kind = "return"
    /\ resp.status = "stopped"
    /\ failedSeen
    /\ polls >= 2

====
